---- MODULE Spec2Model ----
(***************************************************************************)
(* A model of gemini-cli-job: the Process Runner                           *)
(* (GeminiCliCore.executeGemini) and the Job Executor (runTemplatedJob)    *)
(* that drives it.  One job execution is in flight at a time; the          *)
(* external caller (CLI run or scheduler tick) starts the next one.        *)
(***************************************************************************)
EXTENDS Integers, Sequences, FiniteSets, TLC

(***************************************************************************)
(* Bounds of the model.                                                    *)
(***************************************************************************)
\* how many times the external caller invokes the job
MaxRuns == 2
\* how many data chunks the child writes on both streams together
MaxChunks == 2
\* how many JobMemory calls the callers start
MaxMemOps == 3
\* how many tokens the raw text of the subprocess has at most
MaxText == 5
\* how many times cron fires the callback of one scheduled job
MaxTicks == 2

(***************************************************************************)
(* Program constants.                                                      *)
(***************************************************************************)
\* the fixed grace period between SIGTERM and SIGKILL, in ms
ForceKillGraceMs == 5000
\* the default of options.timeoutMs, in ms
DefaultTimeoutMs == 300000
\* the exit code of a child that was killed by a signal (null in the source)
NullCode == -1

VARIABLES
    platform,  \* process.platform: "posix" or "win32"
    run,       \* the state of the executeGemini invocation in flight
    pc,        \* the position of runTemplatedJob
    job,       \* the jobConfig of the execution in flight
    tp,        \* the TemplateProcessor's variables and the values awaited so far
    jobPromise,\* the promise returned by runTemplatedJob
    outcome,   \* how the execution was reported: "none", "success", "failed"
    alerts,    \* the alerts handed to the notification sink, in order
    logLines,  \* the steps of the execution, in order
    metaFile,  \* the shared job-meta.json file
    runs,      \* how many executions the caller has started
    spawns,    \* how many subprocesses this execution has spawned
    memFiles,  \* the files of the job memory directory, by path
    calls,     \* the JobMemory call of each caller, in flight or last made
    memOps,    \* how many JobMemory calls have been started
    memLast,   \* the JobMemory call that took the latest step
    recText,   \* the raw text handed to the Output Recovery Parser
    recResult, \* the RecoveredResponse the parser returned for it
    isCliMode, \* the logger's flag: clean CLI output or detailed job output
    inFlight,  \* per scheduled job, its executions started by cron and not ended
    ticks      \* per scheduled job, how many times cron has fired its callback

vars == <<platform, run, pc, job, tp, jobPromise, outcome, alerts, logLines,
          metaFile, runs, spawns, memFiles, calls, memOps, memLast,
          recText, recResult, isCliMode, inFlight, ticks>>

schedVars == <<isCliMode, inFlight, ticks>>
memVars == <<memFiles, calls, memOps, memLast>>
recVars == <<recText, recResult>>

(***************************************************************************)
(* Text: a string is a sequence of characters over a small alphabet.       *)
(***************************************************************************)
Chars == {" ", "1"}

RECURSIVE TrimStart(_)
\* String.prototype.trimStart
TrimStart(s) ==
    IF s = <<>> THEN <<>>
    ELSE IF Head(s) = " " THEN TrimStart(Tail(s)) ELSE s

RECURSIVE TrimEnd(_)
\* String.prototype.trimEnd
TrimEnd(s) ==
    IF s = <<>> THEN <<>>
    ELSE IF s[Len(s)] = " " THEN TrimEnd(SubSeq(s, 1, Len(s) - 1)) ELSE s

\* String.prototype.trim
Trim(s) == TrimEnd(TrimStart(s))

\* the text of a value the caller never receives
Absent == <<"absent">>

(***************************************************************************)
(* The Process Runner: GeminiCliCore.executeGemini.                        *)
(* run is the closure of one invocation.  A timer is "unset" (its          *)
(* variable is undefined), "armed" (pending in the event loop) or "fired"  *)
(* (the callback ran, the variable still holds the handle).                *)
(***************************************************************************)
AllListeners == {"stdout", "stderr", "close", "error"}

\* no invocation yet
NoRun ==
    [child |-> "none", pid |-> FALSE, errorEmitted |-> FALSE,
     settled |-> FALSE, timeout |-> "unset", forceKillTimeout |-> "unset",
     listeners |-> {}, stdinOpen |-> FALSE,
     stdout |-> <<>>, stderr |-> <<>>, timeoutMs |-> 0, forceKillMs |-> 0,
     signals |-> <<>>, settleCalls |-> 0, handled |-> <<>>,
     result |-> [state |-> "pending", outcome |-> "none", code |-> 0,
                 stdout |-> Absent, stderr |-> Absent]]

\* the closure right after the executor of the promise has run: the child is
\* spawned (or the spawn failed and the child has no pid), the timeout timer
\* is armed, the listeners are registered, the prompt is written to stdin
Spawned(spawnOk, timeoutMs) ==
    [NoRun EXCEPT !.child = IF spawnOk THEN "running" ELSE "spawnFailed",
                  !.pid = spawnOk,
                  !.timeout = "armed",
                  !.timeoutMs = timeoutMs,
                  !.listeners = AllListeners,
                  !.stdinOpen = FALSE]

\* clearTimers that forgets the force-kill timer
clearTimersOnlyTimeout(r) ==
    [r EXCEPT !.timeout = "unset"]

clearTimers(r) ==
    [r EXCEPT !.timeout = "unset", !.forceKillTimeout = "unset"]

cleanup(r) ==
    [clearTimers(r) EXCEPT !.listeners = {}, !.stdinOpen = FALSE]

\* killOk says whether process.kill / geminiProcess.kill returned normally;
\* a throw is caught and only logged; each signal is recorded with the state
\* of the promise at the moment it is sent
killProcessTree(r, signal, killOk) ==
    IF ~r.pid THEN r
    ELSE [r EXCEPT !.signals = Append(@,
              [signal |-> signal,
               target |-> IF platform # "win32" THEN "group" ELSE "child",
               delivered |-> killOk,
               promise |-> r.result.state])]

\* resolve(value) / reject(error): only the first call decides the promise
Settle(r, res) ==
    [r EXCEPT !.settleCalls = @ + 1,
              !.result = IF r.result.state = "pending" THEN res ELSE @]

TimedOutError ==
    [state |-> "rejected", outcome |-> "TimedOut", code |-> 0,
     stdout |-> Absent, stderr |-> Absent]

LaunchFailedError ==
    [state |-> "rejected", outcome |-> "LaunchFailed", code |-> 0,
     stdout |-> Absent, stderr |-> Absent]

\* CloseResult that trims the stderr it puts in the error message
CloseResultTrimmed(r, code) ==
    IF code = 0
    THEN [state |-> "fulfilled", outcome |-> "Completed", code |-> code,
          stdout |-> Trim(r.stdout), stderr |-> Trim(r.stderr)]
    ELSE [state |-> "rejected", outcome |-> "Completed", code |-> code,
          stdout |-> Absent, stderr |-> Trim(r.stderr)]

\* the value of resolve(...) for exit code 0, the Error of reject(...) otherwise
CloseResult(r, code) ==
    IF code = 0
    THEN [state |-> "fulfilled", outcome |-> "Completed", code |-> code,
          stdout |-> Trim(r.stdout), stderr |-> Trim(r.stderr)]
    ELSE [state |-> "rejected", outcome |-> "Completed", code |-> code,
          stdout |-> Absent, stderr |-> r.stderr]

\* the timeout callback without the settled guard and without cleanup
onTimeoutUnguarded(r, killOk) ==
    LET r1 == killProcessTree(r, "SIGTERM", killOk)
        r2 == [r1 EXCEPT !.timeout = "fired",
                         !.handled = Append(@, "timeout")]
    IN  Settle(r2, TimedOutError)

\* the timeout callback that leaves the settlement to the 'close' listener
onTimeoutWaitsForClose(r, killOk) ==
    LET r1 == killProcessTree(r, "SIGTERM", killOk)
    IN  [r1 EXCEPT !.timeout = "fired", !.forceKillTimeout = "armed",
                   !.forceKillMs = ForceKillGraceMs,
                   !.handled = Append(@, "timeout")]

\* the callback of the timeout timer
onTimeout(r, killOk) ==
    LET r1 == killProcessTree(r, "SIGTERM", killOk)
        r2 == [r1 EXCEPT !.timeout = "fired", !.forceKillTimeout = "armed",
                         !.forceKillMs = ForceKillGraceMs,
                         !.handled = Append(@, "timeout")]
    IN  IF ~r2.settled
        THEN Settle(cleanup([r2 EXCEPT !.settled = TRUE]), TimedOutError)
        ELSE r2

\* the callback of the force-kill timer
onForceKill(r, killOk) ==
    LET r1 == killProcessTree(r, "SIGKILL", killOk)
    IN  [r1 EXCEPT !.forceKillTimeout = "fired",
                   !.handled = Append(@, "forceKill")]

\* a 'close' listener whose kill is not wrapped in try/catch: a failure to
\* deliver the signal ends the listener
onCloseKillThrows(r, code, killOk) ==
    LET r0 == killProcessTree(r, "SIGTERM", killOk)
        r1 == cleanup(r0)
        r2 == [r1 EXCEPT !.handled = Append(@, "close")]
    IN  IF r.pid /\ ~killOk THEN [r0 EXCEPT !.handled = Append(@, "close")]
        ELSE IF r2.settled THEN r2
        ELSE Settle([r2 EXCEPT !.settled = TRUE], CloseResult(r2, code))
\* the 'close' listener
onClose(r, code, killOk) ==
    LET r1 == cleanup(killProcessTree(r, "SIGTERM", killOk))
        r2 == [r1 EXCEPT !.handled = Append(@, "close")]
    IN  IF r2.settled THEN r2
        ELSE Settle([r2 EXCEPT !.settled = TRUE], CloseResult(r2, code))

\* the 'error' listener with its settled test inverted: it never rejects
onErrorSilent(r) ==
    LET r1 == [cleanup(r) EXCEPT !.handled = Append(@, "error")]
    IN  IF r1.settled
        THEN Settle([r1 EXCEPT !.settled = TRUE], LaunchFailedError)
        ELSE r1

\* the 'error' listener without cleanup
onErrorNoCleanup(r) ==
    LET r1 == [r EXCEPT !.handled = Append(@, "error")]
    IN  IF ~r1.settled
        THEN Settle([r1 EXCEPT !.settled = TRUE], LaunchFailedError)
        ELSE r1

\* the 'error' listener
onError(r) ==
    LET r1 == [cleanup(r) EXCEPT !.handled = Append(@, "error")]
    IN  IF ~r1.settled
        THEN Settle([r1 EXCEPT !.settled = TRUE], LaunchFailedError)
        ELSE r1

\* the 'data' listeners of stdout and stderr
onData(r, stream, chunk) ==
    IF stream = "stdout" THEN [r EXCEPT !.stdout = @ \o chunk]
    ELSE [r EXCEPT !.stderr = @ \o chunk]


(***************************************************************************)
(* Job templates and the TemplateProcessor.                                *)
(* A value is a record [type, v]; a template string is a sequence of       *)
(* tokens, each a literal or a {{variable}} reference.                     *)
(***************************************************************************)
Undefined == [type |-> "undefined", v |-> <<>>]
Str(s) == [type |-> "string", v |-> s]
Arr(s) == [type |-> "array", v |-> s]
Num(s) == [type |-> "number", v |-> s]

Lit(t) == [kind |-> "lit", name |-> t, value |-> Undefined]
Ref(n) == [kind |-> "var", name |-> n, value |-> Undefined]

ParamNames == {"projectName", "users", "teamName", "reportType", "options"}
VarNames == ParamNames \cup {"jobName", "context", "output", "rawOutput",
                             "jsonData", "userIds", "userList", "currentDate"}

NoValidation == [hasAllowed |-> FALSE, allowedValues |-> {},
                 minLength |-> 0, maxLength |-> 0]

Param(type, required, defaultValue, validation) ==
    [type |-> type, required |-> required, defaultValue |-> defaultValue,
     validation |-> validation]

\* the templates JobTemplateManager has loaded: those of
\* createDefaultTemplates, with the texts of their strings abridged, and
\* one template file of the user's own
Templates ==
    [id \in {"release-notes", "weekly-update", "custom-report",
             "user-report"} |->
       CASE id = "release-notes" ->
              [templateId |-> id, contextType |-> "releaseNotes",
               paramOrder |-> <<"projectName">>,
               parameters |-> [n \in {"projectName"} |->
                   Param("string", TRUE, Undefined, NoValidation)],
               promptTemplate |-> <<Ref("context"), Ref("projectName")>>,
               dataSource |-> "project",
               outputType |-> "json",
               formatTemplate |-> <<Lit("releases")>>,
               stateEnabled |-> TRUE,
               stateKeyTemplate |-> <<Ref("projectName")>>,
               versionField |-> TRUE]
         [] id = "weekly-update" ->
              [templateId |-> id, contextType |-> "weeklyUpdate",
               paramOrder |-> <<"users", "teamName">>,
               parameters |-> [n \in {"users", "teamName"} |->
                   IF n = "users"
                   THEN Param("array", TRUE, Undefined, NoValidation)
                   ELSE Param("string", FALSE, Str(<<"1">>), NoValidation)],
               promptTemplate |-> <<Ref("context"), Ref("userList")>>,
               dataSource |-> "users",
               outputType |-> "raw",
               formatTemplate |-> <<>>,
               stateEnabled |-> FALSE,
               stateKeyTemplate |-> <<>>,
               versionField |-> FALSE]
         [] id = "user-report" ->
              \* a template of the user's templates directory, with a
              \* parameter of the declared type 'object'
              [templateId |-> id, contextType |-> "full",
               paramOrder |-> <<"options">>,
               parameters |-> [n \in {"options"} |->
                   Param("object", TRUE, Undefined, NoValidation)],
               promptTemplate |-> <<Ref("context")>>,
               dataSource |-> "none",
               outputType |-> "raw",
               formatTemplate |-> <<>>,
               stateEnabled |-> TRUE,
               stateKeyTemplate |-> <<Ref("jobName")>>,
               versionField |-> FALSE]
         [] OTHER ->
              [templateId |-> id, contextType |-> "custom",
               paramOrder |-> <<"reportType">>,
               parameters |-> [n \in {"reportType"} |->
                   Param("string", TRUE, Undefined,
                         [hasAllowed |-> TRUE,
                          allowedValues |-> {Str(<<"1">>), Str(<<"1", "1">>)},
                          minLength |-> 0, maxLength |-> 0])],
               promptTemplate |-> <<Ref("reportType"), Ref("context")>>,
               dataSource |-> "static",
               outputType |-> "custom",
               formatTemplate |-> <<Ref("reportType"), Ref("output")>>,
               stateEnabled |-> FALSE,
               stateKeyTemplate |-> <<>>,
               versionField |-> FALSE]]

\* JobTemplateManager.getTemplate: the template, or undefined
getTemplate(templateId) ==
    IF templateId \in DOMAIN Templates
    THEN [found |-> TRUE, template |-> Templates[templateId]]
    ELSE [found |-> FALSE, template |-> Templates["release-notes"]]

\* an Error and its message
Err(kind, param, code, text) ==
    [kind |-> kind, param |-> param, code |-> code, text |-> text]
NoErr == Err("none", "", 0, <<>>)

\* the message of the first check of validateParameterType that fails
validateParameterType(value, paramDef, paramName) ==
    LET val == paramDef.validation IN
    IF paramDef.type \in {"string", "array", "boolean", "number"}
       /\ value.type # paramDef.type
    THEN Err("type", paramName, 0, <<>>)
    ELSE IF val.hasAllowed /\ value \notin val.allowedValues
    THEN Err("allowedValues", paramName, 0, <<>>)
    ELSE IF value.type = "string" /\ val.minLength # 0
            /\ Len(value.v) < val.minLength
    THEN Err("minLength", paramName, 0, <<>>)
    ELSE IF value.type = "string" /\ val.maxLength # 0
            /\ Len(value.v) > val.maxLength
    THEN Err("maxLength", paramName, 0, <<>>)
    ELSE NoErr

EmptyVars == [n \in VarNames |-> Undefined]

RECURSIVE validateFrom(_, _, _, _)
validateFrom(template, parameters, i, variables) ==
    IF i > Len(template.paramOrder) THEN [err |-> NoErr, vars |-> variables]
    ELSE LET paramName == template.paramOrder[i]
             paramDef == template.parameters[paramName]
             given == parameters[paramName]
             value == IF given = Undefined THEN paramDef.defaultValue
                      ELSE given
             check == validateParameterType(value, paramDef, paramName)
         IN  IF given = Undefined /\ paramDef.required
             THEN [err |-> Err("required", paramName, 0, <<>>),
                   vars |-> variables]
             ELSE IF value = Undefined
             THEN validateFrom(template, parameters, i + 1, variables)
             ELSE IF check # NoErr
             THEN [err |-> check, vars |-> variables]
             ELSE validateFrom(template, parameters, i + 1,
                               [variables EXCEPT ![paramName] = value])

\* TemplateProcessor.validateAndSetParameters, then the built-in variables
\* of the constructor
validateAndSetParameters(template, parameters) ==
    LET r == validateFrom(template, parameters, 1, EmptyVars)
    IN  [r EXCEPT !.vars = [@ EXCEPT !["currentDate"] = Str(<<"d">>)]]

RECURSIVE process(_, _)
\* TemplateProcessor.process: every reference to a set variable is
\* replaced by its value, the others stay as they are
process(template, variables) ==
    IF template = <<>> THEN <<>>
    ELSE LET t == Head(template)
             rest == process(Tail(template), variables)
         IN  IF t.kind = "var" /\ t.name \in VarNames
                /\ variables[t.name] # Undefined
             THEN <<[kind |-> "val", name |-> t.name,
                     value |-> variables[t.name]]>> \o rest
             ELSE <<t>> \o rest

\* the side effect of process on the variables: an array variable whose name
\* contains 'user' also sets userList
processVariables(variables) ==
    IF variables["users"].type = "array"
    THEN [variables EXCEPT !["userList"] = Str(variables["users"].v)]
    ELSE IF variables["userIds"].type = "array"
    THEN [variables EXCEPT !["userList"] = Str(variables["userIds"].v)]
    ELSE variables

\* a text that was not built from a template
Text(s) == <<[kind |-> "text", name |-> "", value |-> Str(s)]>>

\* JSON.parse over the alphabet: the texts that parse are the numbers
IsJson(s) == Trim(s) # <<>> /\ \A i \in 1..Len(Trim(s)) : Trim(s)[i] = "1"
\* JSON.stringify(JSON.parse(s), null, 2)
JsonStringify(s) == Trim(s)

(***************************************************************************)
(* The Job Executor: runTemplatedJob and its helpers.                      *)
(***************************************************************************)
Platforms == {"posix", "win32"}
ExitCodes == {0, 1, NullCode}

NoParams == [n \in ParamNames |-> Undefined]

\* the job configurations the caller may hand to runTemplatedJob
JobConfigs ==
    { [jobName |-> "job", templateId |-> "unknown", parameters |-> NoParams],
      [jobName |-> "job", templateId |-> "release-notes",
       parameters |-> NoParams],
      [jobName |-> "job", templateId |-> "release-notes",
       parameters |-> [NoParams EXCEPT !["projectName"] = Str(<<"1">>)]],
      [jobName |-> "job", templateId |-> "release-notes",
       parameters |-> [NoParams EXCEPT !["projectName"] = Num(<<"1">>)]],
      [jobName |-> "job", templateId |-> "weekly-update",
       parameters |-> [NoParams EXCEPT !["users"] = Arr(<<"1">>)]],
      [jobName |-> "job", templateId |-> "custom-report",
       parameters |-> [NoParams EXCEPT !["reportType"] = Str(<<"1">>)]],
      [jobName |-> "job", templateId |-> "custom-report",
       parameters |-> [NoParams EXCEPT !["reportType"] = Str(<<" ">>)]],
      [jobName |-> "job", templateId |-> "user-report",
       parameters |-> [NoParams EXCEPT !["options"] = Str(<<"1">>)]] }

NoJob == [jobName |-> "", templateId |-> "", parameters |-> NoParams]

NoTp == [template |-> "", vars |-> EmptyVars, prompt |-> <<>>,
         stdout |-> <<>>, output |-> <<>>, err |-> NoErr]

\* the files ContextLoader.getContextFilesForType names for a context type
getContextFilesForType(contextType) ==
    CASE contextType = "releaseNotes" ->
           <<"about.md", "release-notes-rules.md", "products.md">>
      [] contextType = "weeklyUpdate" ->
           <<"about.md", "weekly-update-rules.md", "workflows.md">>
      [] contextType = "dailyStandup" ->
           <<"about.md", "daily-standup-rules.md", "workflows.md">>
      [] OTHER -> <<"about.md">>

\* the contents of the context directory the model tries
ContextDirs == { {}, {"about.md"},
                 {"about.md", "release-notes-rules.md", "products.md",
                  "weekly-update-rules.md", "workflows.md"} }

RECURSIVE loadMultipleContextFiles(_, _)
\* the headers of the files that exist, in the order of the list
loadMultipleContextFiles(contextFiles, dir) ==
    IF contextFiles = <<>> THEN <<>>
    ELSE (IF Head(contextFiles) \in dir THEN <<Head(contextFiles)>>
          ELSE <<>>) \o loadMultipleContextFiles(Tail(contextFiles), dir)

loadTemplatedContext(template, dir) ==
    Str(loadMultipleContextFiles(getContextFilesForType(template.contextType),
                                 dir))

\* processTemplatedOutput: the processed output and the variables it sets
processTemplatedOutput(rawOutput, template, variables) ==
    CASE template.outputType = "json" ->
           IF IsJson(rawOutput)
           THEN LET v == [variables EXCEPT
                            !["jsonData"] = Num(JsonStringify(rawOutput))]
                IN  IF template.formatTemplate # <<>>
                    THEN [output |-> process(template.formatTemplate,
                                             processVariables(v)),
                          vars |-> processVariables(v)]
                    ELSE [output |-> Text(JsonStringify(rawOutput)),
                          vars |-> v]
           ELSE [output |-> Text(rawOutput), vars |-> variables]
      [] template.outputType = "custom" ->
           IF template.formatTemplate # <<>>
           THEN LET v == processVariables(
                           [variables EXCEPT !["output"] = Str(rawOutput)])
                IN  [output |-> process(template.formatTemplate, v),
                     vars |-> v]
           ELSE [output |-> Text(rawOutput), vars |-> variables]
      [] OTHER -> [output |-> Text(rawOutput), vars |-> variables]

\* the job-meta.json file: absent, unreadable, or a map from state keys
NoMeta == [exists |-> FALSE, corrupt |-> FALSE, entries |-> <<>>]
OtherKey == <<Lit("other")>>
MetaFiles ==
    { NoMeta,
      [exists |-> TRUE, corrupt |-> TRUE, entries |-> <<>>],
      [exists |-> TRUE, corrupt |-> FALSE,
       entries |-> <<[key |-> OtherKey, lastRun |-> 0, lastVersion |-> 0]>>] }

RECURSIVE setEntry(_, _)
\* meta[stateKey] = entry
setEntry(entries, entry) ==
    IF entries = <<>> THEN <<entry>>
    ELSE IF Head(entries).key = entry.key THEN <<entry>> \o Tail(entries)
    ELSE <<Head(entries)>> \o setEntry(Tail(entries), entry)

\* a state step that starts from an empty map instead of the loaded file
handleTemplatedStateManagementFresh(template, variables, meta, now, fsOk) ==
    IF ~template.stateEnabled THEN [err |-> NoErr, meta |-> meta]
    ELSE IF ~fsOk THEN [err |-> Err("fs", "", 0, <<>>), meta |-> meta]
    ELSE [err |-> NoErr,
          meta |-> [exists |-> TRUE, corrupt |-> FALSE,
                    entries |-> IF template.versionField THEN <<>>
                                ELSE <<[key |-> process(
                                            template.stateKeyTemplate,
                                            processVariables(variables)),
                                        lastRun |-> now,
                                        lastVersion |-> 0]>>]]
\* handleTemplatedStateManagement: the error it throws and the meta file it
\* leaves; fsOk says whether the file system calls succeed
handleTemplatedStateManagement(template, variables, meta, now, fsOk) ==
    IF ~template.stateEnabled THEN [err |-> NoErr, meta |-> meta]
    ELSE IF ~fsOk THEN [err |-> Err("fs", "", 0, <<>>), meta |-> meta]
    ELSE IF meta.exists /\ meta.corrupt
    THEN [err |-> Err("metaParse", "", 0, <<>>), meta |-> meta]
    ELSE LET stateKey == process(template.stateKeyTemplate,
                                 processVariables(variables))
             loaded == IF meta.exists THEN meta.entries ELSE <<>>
             \* with a versionField only a non-empty array output updates
             \* the entry; the outputs of this alphabet are never arrays
             updated == IF template.versionField THEN loaded
                        ELSE setEntry(loaded, [key |-> stateKey,
                                  lastRun |-> now, lastVersion |-> 0])
         IN  [err |-> NoErr,
              meta |-> [exists |-> TRUE, corrupt |-> FALSE,
                        entries |-> updated]]

\* the payloads of sendTemplatedSuccessNotification and
\* sendTemplatedErrorNotification
SuccessAlert(j, output) ==
    [kind |-> "success", jobName |-> j.jobName, priority |-> "config",
     error |-> NoErr, text |-> output]
\* an error alert sent with the priority of the job's own configuration
ErrorAlertUnescalated(j, e) ==
    [kind |-> "error", jobName |-> j.jobName, priority |-> "config",
     error |-> e, text |-> <<>>]
ErrorAlert(j, e) ==
    [kind |-> "error", jobName |-> j.jobName, priority |-> "P1",
     error |-> e, text |-> <<>>]

\* err.message of the rejection of executeGemini
ErrorOf(result) ==
    CASE result.outcome = "TimedOut" -> Err("timeout", "", 0, <<>>)
      [] result.outcome = "LaunchFailed" -> Err("launch", "", 0, <<>>)
      [] OTHER -> Err("exit", "", result.code, result.stderr)

\* the notification sink: every alert handed to it is recorded; it delivers
\* the alert, or fails and throws
sendAlert(sent, alert, sinkOk) ==
    [threw |-> ~sinkOk,
     alerts |-> Append(sent, [kind |-> alert.kind, jobName |-> alert.jobName,
                              priority |-> alert.priority,
                              error |-> alert.error, text |-> alert.text,
                              delivered |-> sinkOk])]

(***************************************************************************)
(* JobMemory: one JSON file per job name in the memory directory.  A       *)
(* memory is a flat map of user keys (value 0: the key is absent) and the  *)
(* reserved _metadata key (updateCount 0: the key is absent); lastUpdated  *)
(* is a time stamp and is left out.                                        *)
(***************************************************************************)
NameChars == {"a", "b", "_", " "}
\* the characters the regular expression [^a-zA-Z0-9-_] does not match
SafeNameChars == {"a", "b", "_"}

JobNames == {<<"a", " ">>, <<"a", "_">>, <<"b">>}

RECURSIVE sanitize(_)
\* jobName.replace(/[^a-zA-Z0-9-_]/g, '_')
sanitize(name) ==
    IF name = <<>> THEN <<>>
    ELSE <<IF Head(name) \in SafeNameChars THEN Head(name) ELSE "_">>
         \o sanitize(Tail(name))

\* the path of the memory file of a job: the sanitized name with the
\* extension ".memory.json"
getMemoryFilePath(jobName) ==
    [name |-> sanitize(jobName), ext |-> "memory.json"]

\* the file the command "memory clear <jobName>" looks for
cliMemoryFile(jobName) == [name |-> jobName, ext |-> "json"]

\* the paths of the memory directory that the program names
MemoryPaths == {getMemoryFilePath(n) : n \in JobNames}
               \cup {cliMemoryFile(n) : n \in JobNames}

Keys == {"a", "b"}
NoMetadata == [jobName |-> <<>>, updateCount |-> 0]
EmptyMemory == [kv |-> [k \in Keys |-> 0], meta |-> NoMetadata]
KV(a, b) == [k \in Keys |-> IF k = "a" THEN a ELSE b]

\* the update maps the callers pass to updateJobMemory
Updates == {[kv |-> KV(2, 0), meta |-> NoMetadata],
            [kv |-> KV(0, 2), meta |-> NoMetadata]}

\* the maps the callers pass to saveJobMemory: a fresh map, and a map that
\* carries the _metadata of an earlier load
SaveMaps == {[kv |-> KV(1, 0), meta |-> NoMetadata],
             [kv |-> KV(0, 1), meta |-> [jobName |-> <<"b">>,
                                         updateCount |-> 1]]}

NoFile == [exists |-> FALSE, corrupt |-> FALSE, memory |-> EmptyMemory]
\* a file whose content cannot be read or is not JSON
CorruptFile == [exists |-> TRUE, corrupt |-> TRUE, memory |-> EmptyMemory]

\* loadJobMemory: {} when the file is missing or the read or the parse throws
loadJobMemory(files, jobName) ==
    LET f == files[getMemoryFilePath(jobName)]
    IN  IF ~f.exists \/ f.corrupt THEN EmptyMemory ELSE f.memory

\* a save that reads the file again and merges into what it holds now
saveJobMemoryLocked(files, jobName, memory, fsOk) ==
    LET p == getMemoryFilePath(jobName)
        cur == loadJobMemory(files, jobName)
    IN  IF ~fsOk THEN [threw |-> TRUE, files |-> files]
        ELSE [threw |-> FALSE,
              files |-> [files EXCEPT ![p] =
                  [exists |-> TRUE, corrupt |-> FALSE,
                   memory |-> [kv |-> [k \in Keys |->
                                         IF memory.kv[k] # 0 THEN memory.kv[k]
                                         ELSE cur.kv[k]],
                               meta |-> [jobName |-> jobName,
                                         updateCount |->
                                             cur.meta.updateCount + 1]]]]]
\* saveJobMemory: the map is written with a fresh _metadata whose
\* updateCount is one more than the count the map carries; a failed write
\* is thrown on
saveJobMemory(files, jobName, memory, fsOk) ==
    LET p == getMemoryFilePath(jobName)
    IN  IF ~fsOk THEN [threw |-> TRUE, files |-> files]
        ELSE [threw |-> FALSE,
              files |-> [files EXCEPT ![p] =
                  [exists |-> TRUE, corrupt |-> FALSE,
                   memory |-> [kv |-> memory.kv,
                               meta |-> [jobName |-> jobName,
                                         updateCount |->
                                             memory.meta.updateCount + 1]]]]]

\* an update that replaces the loaded memory by the update map
mergeReplacing(current, updates) ==
    [kv |-> updates.kv, meta |-> current.meta]
\* { ...currentMemory, ...updates }
mergeMemory(current, updates) ==
    [kv |-> [k \in Keys |-> IF updates.kv[k] # 0 THEN updates.kv[k]
                            ELSE current.kv[k]],
     meta |-> IF updates.meta # NoMetadata THEN updates.meta
              ELSE current.meta]

\* clearJobMemory: the file is unlinked when it exists; an error is logged
clearJobMemory(files, jobName, fsOk) ==
    LET p == getMemoryFilePath(jobName)
    IN  IF fsOk /\ files[p].exists THEN [files EXCEPT ![p] = NoFile]
        ELSE files

Callers == {1, 2}
NoCall == [pc |-> "idle", op |-> "none", jobName |-> <<>>,
           updates |-> EmptyMemory, snapshot |-> EmptyMemory,
           result |-> "none", overlapped |-> FALSE]
NoLast == [caller |-> 0, op |-> "none", jobName |-> <<>>, result |-> "none"]

(***************************************************************************)
(* The Output Recovery Parser.  A raw text is a sequence of tokens:        *)
(*   "{" "}"  a brace                                                      *)
(*   "J"      the member  "jobResult":"r"                                  *)
(*   "E"      the member  "jobResult":""                                   *)
(*   "D"      the members "jobResult":"r","jobMemory":{"a":{"b":1}}        *)
(*            (braces nested two levels deep inside the object that holds  *)
(*            them)                                                        *)
(*   "x"      a word of prose, without braces                              *)
(*   "n"      a line break, the only white space                           *)
(***************************************************************************)
RecTokens == {"{", "}", "J", "E", "D", "x", "n"}
Texts == UNION {[1..k -> RecTokens] : k \in 0..MaxText}

HasBrace(t) == t \in {"{", "}", "D"}
HasJobResult(t) == t \in {"J", "E", "D"}

RECURSIVE TrimTextStart(_)
TrimTextStart(s) ==
    IF s = <<>> THEN <<>>
    ELSE IF Head(s) = "n" THEN TrimTextStart(Tail(s)) ELSE s
RECURSIVE TrimTextEnd(_)
TrimTextEnd(s) ==
    IF s = <<>> THEN <<>>
    ELSE IF s[Len(s)] = "n" THEN TrimTextEnd(SubSeq(s, 1, Len(s) - 1)) ELSE s
\* the trimmed text
TrimText(s) == TrimTextEnd(TrimTextStart(s))

IsNotBreak(t) == t # "n"

\* a JSON parse: white space between the tokens of JSON is skipped; the
\* texts of this alphabet that are JSON are the objects {}, {J}, {E}, {D};
\* on every other text the parse raises a syntax error (ok is FALSE)
JsonParse(s) ==
    LET r == SelectSeq(s, IsNotBreak)
    IN  IF r = <<"{", "}">>
        THEN [ok |-> TRUE, jobResult |-> Undefined, jobMemory |-> {}]
        ELSE IF r = <<"{", "J", "}">>
        THEN [ok |-> TRUE, jobResult |-> Str(<<"r">>), jobMemory |-> {}]
        ELSE IF r = <<"{", "D", "}">>
        THEN [ok |-> TRUE, jobResult |-> Str(<<"r">>), jobMemory |-> {"a"}]
        ELSE IF r = <<"{", "E", "}">>
        THEN [ok |-> TRUE, jobResult |-> Str(<<>>), jobMemory |-> {}]
        ELSE [ok |-> FALSE, jobResult |-> Undefined, jobMemory |-> {}]

NoMatch == [ok |-> FALSE, jobResult |-> Undefined, jobMemory |-> {}]

\* a scan that accepts every candidate that parses into an object
AcceptedAnyObject(candidate) == JsonParse(candidate).ok
\* a candidate is accepted when it parses into an object with a non-empty
\* string jobResult
Accepted(candidate) ==
    LET p == JsonParse(candidate)
    IN  p.ok /\ p.jobResult.type = "string" /\ p.jobResult.v # <<>>

RECURSIVE FirstAccepted(_)
\* the first candidate that is accepted, in the order of the sequence
FirstAccepted(candidates) ==
    IF candidates = <<>> THEN NoMatch
    ELSE IF Accepted(Head(candidates)) THEN JsonParse(Head(candidates))
    ELSE FirstAccepted(Tail(candidates))

\* the index of the first token after i that holds a brace, 0 if none
NextBrace(text, i) ==
    LET js == {j \in (i + 1)..Len(text) : HasBrace(text[j])}
    IN  IF js = {} THEN 0 ELSE CHOOSE j \in js : \A k \in js : j <= k

RECURSIVE SmallestFrom(_, _)
\* pattern a from index i on: the spans from a "{" to the next brace, when
\* that is a "}" and the literal key jobResult lies between them
SmallestFrom(text, i) ==
    IF i > Len(text) THEN <<>>
    ELSE LET j == NextBrace(text, i)
         IN  IF /\ text[i] = "{" /\ j # 0 /\ text[j] = "}"
                /\ \E k \in (i + 1)..(j - 1) : HasJobResult(text[k])
             THEN <<SubSeq(text, i, j)>> \o SmallestFrom(text, j + 1)
             ELSE SmallestFrom(text, i + 1)

RECURSIVE BalancedEnd(_, _)
\* pattern b after an opening brace: the index of the "}" that closes it
\* when every brace between is an object without braces of its own, else 0
BalancedEnd(text, k) ==
    IF k > Len(text) \/ text[k] = "D" THEN 0
    ELSE IF text[k] = "}" THEN k
    ELSE IF text[k] = "{"
    THEN LET m == NextBrace(text, k)
         IN  IF m # 0 /\ text[m] = "}" THEN BalancedEnd(text, m + 1) ELSE 0
    ELSE BalancedEnd(text, k + 1)

RECURSIVE BalancedFrom(_, _)
\* pattern b from index i on: its matches from left to right (its matches
\* inside a "D" are objects without a jobResult and are left out)
BalancedFrom(text, i) ==
    IF i > Len(text) THEN <<>>
    ELSE LET e == IF text[i] = "{" THEN BalancedEnd(text, i + 1) ELSE 0
         IN  IF e # 0
             THEN <<SubSeq(text, i, e)>> \o BalancedFrom(text, e + 1)
             ELSE BalancedFrom(text, i + 1)

\* pattern c: the span from the first brace of the text to its last; a
\* span that starts or ends inside a "D" is not JSON
GreedySpan(text) ==
    LET bs == {j \in 1..Len(text) : HasBrace(text[j])}
        first == CHOOSE j \in bs : \A k \in bs : j <= k
        last == CHOOSE j \in bs : \A k \in bs : j >= k
    IN  IF bs = {} THEN <<>>
        ELSE IF text[first] = "{" /\ text[last] = "}" /\ first < last
        THEN <<SubSeq(text, first, last)>>
        ELSE <<>>

RECURSIVE Lines(_)
\* text.split on line breaks
Lines(text) ==
    LET bs == {j \in 1..Len(text) : text[j] = "n"}
        b == CHOOSE j \in bs : \A k \in bs : j <= k
    IN  IF bs = {} THEN <<text>>
        ELSE <<SubSeq(text, 1, b - 1)>> \o Lines(SubSeq(text, b + 1, Len(text)))

\* a line whose trimmed form starts with "{" and contains "jobResult"
IsCandidateLine(line) ==
    /\ line # <<>> /\ Head(line) = "{"
    /\ \E k \in 1..Len(line) : HasJobResult(line[k])

\* strategy 1 with the acceptance rule of the scanning strategies
wholeTextParseStrict(text) ==
    IF Accepted(TrimText(text)) THEN JsonParse(TrimText(text)) ELSE NoMatch
\* strategy 1: the whole trimmed text parses into an object
wholeTextParse(text) == JsonParse(TrimText(text))

\* strategy 2: the candidates of the patterns a, b, c in that order
embeddedScan(text) ==
    FirstAccepted(SmallestFrom(text, 1) \o BalancedFrom(text, 1)
                  \o GreedySpan(text))

\* strategy 3: the candidate lines in their order
lineScan(text) == FirstAccepted(SelectSeq(Lines(text), IsCandidateLine))

RecoveryModes == {"WholeTextJson", "EmbeddedJson", "LineJson",
                  "PlainTextFallback"}

\* the response built from what a strategy parsed; jobMemoryUpdates
\* defaults to empty
Recovered(mode, parsed) ==
    [threw |-> FALSE, recoveryMode |-> mode, jobResult |-> parsed.jobResult,
     jobMemoryUpdates |-> parsed.jobMemory]
NoRecovered == [threw |-> FALSE, recoveryMode |-> "none",
                jobResult |-> Undefined, jobMemoryUpdates |-> {}]

\* a fallback that returns the trimmed text
plainTextFallbackTrimmed(rawText) ==
    [ok |-> TRUE, jobResult |-> Str(TrimText(rawText)), jobMemory |-> {}]
\* strategy 4: the raw text as it is, and no memory updates
plainTextFallback(rawText) ==
    [ok |-> TRUE, jobResult |-> Str(rawText), jobMemory |-> {}]

\* a parser without the last strategy: it raises when no JSON is found
recoverOrRaise(rawText) ==
    IF wholeTextParse(rawText).ok
    THEN Recovered("WholeTextJson", wholeTextParse(rawText))
    ELSE IF embeddedScan(rawText).ok
    THEN Recovered("EmbeddedJson", embeddedScan(rawText))
    ELSE IF lineScan(rawText).ok
    THEN Recovered("LineJson", lineScan(rawText))
    ELSE [threw |-> TRUE, recoveryMode |-> "none", jobResult |-> Undefined,
          jobMemoryUpdates |-> {}]
\* recover: the strategies in their order, the first success wins
recover(rawText) ==
    IF wholeTextParse(rawText).ok
    THEN Recovered("WholeTextJson", wholeTextParse(rawText))
    ELSE IF embeddedScan(rawText).ok
    THEN Recovered("EmbeddedJson", embeddedScan(rawText))
    ELSE IF lineScan(rawText).ok
    THEN Recovered("LineJson", lineScan(rawText))
    ELSE Recovered("PlainTextFallback", plainTextFallback(rawText))

\* the jobs of the configuration that are enabled and have a schedule
ScheduledJobs == {"daily", "weekly", "hourly"}

setCliMode(enabled) == isCliMode' = enabled

\* logWithLevel: the format of a console line in the current mode
logWithLevel == IF isCliMode THEN "clean" ELSE "detailed"

\* main() has run, cron has fired nothing yet
SchedInit ==
    /\ isCliMode = TRUE
    /\ inFlight = [j \in ScheduledJobs |-> 0]
    /\ ticks = [j \in ScheduledJobs |-> 0]


(***************************************************************************)
(* Initial state.                                                          *)
(***************************************************************************)
Init ==
    /\ platform \in Platforms
    /\ run = NoRun
    /\ pc = "idle"
    /\ job = NoJob
    /\ tp = NoTp
    /\ jobPromise = "none"
    /\ outcome = "none"
    /\ alerts = <<>>
    /\ logLines = <<>>
    /\ metaFile \in MetaFiles
    /\ runs = 0
    /\ spawns = 0
    /\ memFiles = [p \in MemoryPaths |-> NoFile]
    /\ calls = [c \in Callers |-> NoCall]
    /\ memOps = 0
    /\ memLast = NoLast
    /\ recText = <<>>
    /\ recResult = NoRecovered
    /\ SchedInit

jobVars == <<pc, job, tp, jobPromise, outcome, alerts, logLines, metaFile,
             runs, spawns>>

(***************************************************************************)
(* The scheduler of `gjob start` and the logger's mode.                    *)
(* main() puts the logger in CLI mode; the cron callback of a scheduled    *)
(* job switches to detailed mode, awaits runTemplatedJob and switches back *)
(* to CLI mode.  Callbacks of several jobs, and of one job, overlap at the *)
(* await.                                                                  *)
(***************************************************************************)
schedOthers == <<platform, run, jobVars, memVars, recVars>>

\* the cron callback up to its await
CronFires(j) ==
    /\ ticks[j] < MaxTicks
    /\ ticks' = [ticks EXCEPT ![j] = @ + 1]
    /\ setCliMode(FALSE)
    /\ inFlight' = [inFlight EXCEPT ![j] = @ + 1]
    /\ UNCHANGED schedOthers

\* the cron callback after its await: the promise of runTemplatedJob was
\* fulfilled, or it was rejected and the callback ends at the await
JobSettles(j, fulfilled) ==
    /\ inFlight[j] > 0
    /\ inFlight' = [inFlight EXCEPT ![j] = @ - 1]
    /\ IF fulfilled THEN setCliMode(TRUE) ELSE UNCHANGED isCliMode
    /\ UNCHANGED <<ticks, schedOthers>>

SchedNext ==
    \/ \E j \in ScheduledJobs : CronFires(j)
    \/ \E j \in ScheduledJobs, fulfilled \in BOOLEAN : JobSettles(j, fulfilled)

SchedulerSpec == Init /\ [][SchedNext]_vars

(***************************************************************************)
(* The events of one executeGemini invocation.  The environment delivers   *)
(* them in any order: a timer fires while it is armed, the child writes    *)
(* data, reports an error or closes; an event without a listener runs no   *)
(* code of the program.  A spawn that failed is reported by an 'error'     *)
(* event on the next tick, ahead of every timer and of 'close'.            *)
(***************************************************************************)
SpawnFailurePending(r) == r.child = "spawnFailed" /\ ~r.errorEmitted

Timers == {"timeout", "forceKillTimeout"}

TimerFires(t, killOk) ==
    /\ run[t] = "armed"
    /\ ~SpawnFailurePending(run)
    /\ run' = IF t = "timeout" THEN onTimeout(run, killOk)
              ELSE onForceKill(run, killOk)
    /\ UNCHANGED <<schedVars, recVars, memVars, platform, jobVars>>

ChildData(stream, ch) ==
    /\ run.child = "running"
    /\ stream \in run.listeners
    /\ Len(run.stdout) + Len(run.stderr) < MaxChunks
    /\ run' = onData(run, stream, <<ch>>)
    /\ UNCHANGED <<schedVars, recVars, memVars, platform, jobVars>>

ChildClose(code, killOk) ==
    /\ run.child \in {"running", "spawnFailed"}
    /\ ~SpawnFailurePending(run)
    /\ LET r == [run EXCEPT !.child = "closed"]
       IN  run' = IF "close" \in run.listeners THEN onClose(r, code, killOk)
                  ELSE r
    /\ UNCHANGED <<schedVars, recVars, memVars, platform, jobVars>>

ChildError ==
    /\ run.child \in {"running", "spawnFailed"}
    /\ ~run.errorEmitted
    /\ "error" \in run.listeners
    /\ run' = onError([run EXCEPT !.errorEmitted = TRUE])
    /\ UNCHANGED <<schedVars, recVars, memVars, platform, jobVars>>

RunnerEvents ==
    \/ \E t \in Timers, killOk \in BOOLEAN : TimerFires(t, killOk)
    \/ \E stream \in {"stdout", "stderr"}, ch \in Chars : ChildData(stream, ch)
    \/ \E code \in ExitCodes, killOk \in BOOLEAN : ChildClose(code, killOk)
    \/ ChildError

(***************************************************************************)
(* The steps of runTemplatedJob.                                           *)
(***************************************************************************)
\* a throw inside the try block: control goes to the catch block
Throw(e) ==
    /\ tp' = [tp EXCEPT !.err = e]
    /\ pc' = "catch"

StartJob(cfg) ==
    /\ pc = "idle"
    /\ runs < MaxRuns
    /\ runs' = runs + 1
    /\ job' = cfg
    /\ tp' = NoTp
    /\ run' = NoRun
    /\ pc' = "getTemplate"
    /\ jobPromise' = "pending"
    /\ outcome' = "none"
    /\ alerts' = <<>>
    /\ logLines' = <<"start">>
    /\ spawns' = 0
    /\ UNCHANGED <<schedVars, recVars, memVars, platform, metaFile>>

GetTemplate ==
    /\ pc = "getTemplate"
    /\ LET t == getTemplate(job.templateId)
       IN  IF ~t.found THEN Throw(Err("templateNotFound", "", 0, <<>>))
           ELSE /\ tp' = [tp EXCEPT !.template = t.template.templateId]
                /\ pc' = "validate"
    /\ logLines' = Append(logLines, "getTemplate")
    /\ UNCHANGED <<schedVars, recVars, memVars, platform, run, job, jobPromise, outcome, alerts, metaFile,
                   runs, spawns>>

ValidateParameters ==
    /\ pc = "validate"
    /\ LET r == validateAndSetParameters(Templates[tp.template],
                                         job.parameters)
       IN  IF r.err # NoErr THEN Throw(r.err)
           ELSE /\ tp' = [tp EXCEPT !.vars =
                            [r.vars EXCEPT !["jobName"] = Str(<<job.jobName>>)]]
                /\ pc' = "prepare"
    /\ logLines' = Append(logLines, "validate")
    /\ UNCHANGED <<schedVars, recVars, memVars, platform, run, job, jobPromise, outcome, alerts, metaFile,
                   runs, spawns>>

prepareTemplatedDataSource ==
    /\ pc = "prepare"
    /\ tp' = IF Templates[tp.template].dataSource = "users"
                /\ tp.vars["users"] # Undefined
             THEN [tp EXCEPT !.vars["userIds"] = tp.vars["users"]]
             ELSE tp
    /\ pc' = "loadContext"
    /\ logLines' = Append(logLines, "prepare")
    /\ UNCHANGED <<schedVars, recVars, memVars, platform, run, job, jobPromise, outcome, alerts, metaFile,
                   runs, spawns>>

LoadContext(dir) ==
    /\ pc = "loadContext"
    /\ tp' = [tp EXCEPT !.vars["context"] =
                 loadTemplatedContext(Templates[tp.template], dir)]
    /\ pc' = "prompt"
    /\ logLines' = Append(logLines, "loadContext")
    /\ UNCHANGED <<schedVars, recVars, memVars, platform, run, job, jobPromise, outcome, alerts, metaFile,
                   runs, spawns>>

GeneratePrompt ==
    /\ pc = "prompt"
    /\ tp' = [tp EXCEPT
                !.vars = processVariables(tp.vars),
                !.prompt = process(Templates[tp.template].promptTemplate,
                                   processVariables(tp.vars))]
    /\ pc' = "execute"
    /\ logLines' = Append(logLines, "prompt")
    /\ UNCHANGED <<schedVars, recVars, memVars, platform, run, job, jobPromise, outcome, alerts, metaFile,
                   runs, spawns>>

\* executeGeminiForJob up to its await: the subprocess is spawned
executeGeminiForJob(spawnOk) ==
    /\ pc = "execute"
    /\ run' = Spawned(spawnOk, DefaultTimeoutMs)
    /\ spawns' = spawns + 1
    /\ pc' = "awaitGemini"
    /\ logLines' = Append(logLines, "spawn")
    /\ UNCHANGED <<schedVars, recVars, memVars, platform, job, tp, jobPromise, outcome, alerts, metaFile,
                   runs>>

\* an executor that goes on without waiting for the subprocess
ResumeBeforeSettled ==
    /\ pc = "awaitGemini"
    /\ tp' = [tp EXCEPT !.stdout = Trim(run.stdout)]
    /\ pc' = "processOutput"
    /\ logLines' = Append(logLines, "settled")
    /\ UNCHANGED <<schedVars, recVars, memVars, platform, run, job, jobPromise, outcome,
                   alerts, metaFile, runs, spawns>>
\* the await of executeGeminiForJob resumes once the promise has settled
ResumeAfterGemini ==
    /\ pc = "awaitGemini"
    /\ run.result.state # "pending"
    /\ IF run.result.state = "fulfilled"
       THEN /\ tp' = [tp EXCEPT !.stdout = run.result.stdout]
            /\ pc' = "processOutput"
       ELSE Throw(ErrorOf(run.result))
    /\ logLines' = Append(logLines, "settled")
    /\ UNCHANGED <<schedVars, recVars, memVars, platform, run, job, jobPromise, outcome, alerts, metaFile,
                   runs, spawns>>

ProcessOutput ==
    /\ pc = "processOutput"
    /\ LET r == processTemplatedOutput(tp.stdout, Templates[tp.template],
                                       tp.vars)
       IN  tp' = [tp EXCEPT !.output = r.output,
                     !.vars = [r.vars EXCEPT !["output"] = Str(r.output),
                                             !["rawOutput"] = Str(tp.stdout)]]
    /\ pc' = "state"
    /\ logLines' = Append(logLines, "processOutput")
    /\ UNCHANGED <<schedVars, recVars, memVars, platform, run, job, jobPromise, outcome, alerts, metaFile,
                   runs, spawns>>

StateManagement(fsOk) ==
    /\ pc = "state"
    /\ LET r == handleTemplatedStateManagement(Templates[tp.template],
                                               tp.vars, metaFile, runs, fsOk)
       IN  /\ metaFile' = r.meta
           /\ IF r.err # NoErr THEN Throw(r.err)
              ELSE /\ pc' = "notify"
                   /\ tp' = [tp EXCEPT !.vars = processVariables(tp.vars)]
    /\ logLines' = Append(logLines, "state")
    /\ UNCHANGED <<schedVars, recVars, memVars, platform, run, job, jobPromise, outcome, alerts, runs,
                   spawns>>

\* sendTemplatedSuccessNotification and the end of the try block
NotifySuccess(sinkOk) ==
    /\ pc = "notify"
    /\ LET r == sendAlert(alerts, SuccessAlert(job, tp.output), sinkOk)
       IN  /\ alerts' = r.alerts
           /\ IF r.threw
              THEN /\ Throw(Err("alert", "", 0, <<>>))
                   /\ UNCHANGED <<jobPromise, outcome>>
              ELSE /\ pc' = "idle"
                   /\ jobPromise' = "fulfilled"
                   /\ outcome' = "success"
                   /\ tp' = tp
    /\ logLines' = Append(logLines, "notify")
    /\ UNCHANGED <<schedVars, recVars, memVars, platform, run, job, metaFile, runs, spawns>>

\* a catch block that runs the subprocess again after a failed run
CatchRetry(sinkOk) ==
    /\ pc = "catch"
    /\ IF tp.err.kind \in {"launch", "timeout", "exit"} /\ spawns < 2
       THEN /\ pc' = "execute"
            /\ UNCHANGED <<alerts, jobPromise, outcome>>
       ELSE /\ alerts' = sendAlert(alerts, ErrorAlert(job, tp.err),
                                   sinkOk).alerts
            /\ jobPromise' = IF sinkOk THEN "fulfilled" ELSE "rejected"
            /\ outcome' = "failed"
            /\ pc' = "idle"
    /\ logLines' = Append(logLines, "catch")
    /\ UNCHANGED <<schedVars, recVars, memVars, platform, run, job, tp, metaFile, runs, spawns>>

\* the catch block: the error is logged and sendTemplatedErrorNotification
\* is awaited; a throw of the sink leaves runTemplatedJob
Catch(sinkOk) ==
    /\ pc = "catch"
    /\ LET r == sendAlert(alerts, ErrorAlert(job, tp.err), sinkOk)
       IN  /\ alerts' = r.alerts
           /\ jobPromise' = IF r.threw THEN "rejected" ELSE "fulfilled"
    /\ outcome' = "failed"
    /\ pc' = "idle"
    /\ logLines' = Append(logLines, "catch")
    /\ UNCHANGED <<schedVars, recVars, memVars, platform, run, job, tp, metaFile, runs, spawns>>

runTemplatedJob ==
    \/ GetTemplate
    \/ ValidateParameters
    \/ prepareTemplatedDataSource
    \/ \E dir \in ContextDirs : LoadContext(dir)
    \/ GeneratePrompt
    \/ \E spawnOk \in BOOLEAN : executeGeminiForJob(spawnOk)
    \/ ResumeAfterGemini
    \/ ProcessOutput
    \/ \E fsOk \in BOOLEAN : StateManagement(fsOk)
    \/ \E sinkOk \in BOOLEAN : NotifySuccess(sinkOk)
    \/ \E sinkOk \in BOOLEAN : Catch(sinkOk)

Next ==
    \/ \E cfg \in JobConfigs : StartJob(cfg)
    \/ runTemplatedJob
    \/ RunnerEvents

Spec == Init /\ [][Next]_vars

(***************************************************************************)
(* The Process Runner on its own: one invocation of executeGemini by any   *)
(* caller, with any timeout.                                               *)
(***************************************************************************)
TimeoutOptions == {0, 1000}

executeGemini(spawnOk, timeoutMs) ==
    /\ run.child = "none"
    /\ pc = "idle"
    /\ run' = Spawned(spawnOk,
                      IF timeoutMs # 0 THEN timeoutMs ELSE DefaultTimeoutMs)
    /\ UNCHANGED <<schedVars, recVars, memVars, platform, jobVars>>

RunnerNext ==
    \/ \E spawnOk \in BOOLEAN, ms \in TimeoutOptions :
           executeGemini(spawnOk, ms)
    \/ RunnerEvents

RunnerSpec == Init /\ [][RunnerNext]_vars

\* a timer that stays armed fires, and a failed spawn is reported
RunnerLiveSpec ==
    /\ RunnerSpec
    /\ WF_vars(\E t \in Timers, killOk \in BOOLEAN : TimerFires(t, killOk))
    /\ WF_vars(SpawnFailurePending(run) /\ ChildError)

(***************************************************************************)
(* JobMemory under its callers (the CLI and the scheduled jobs of one      *)
(* process).  loadJobMemory, saveJobMemory and clearJobMemory run their    *)
(* file system calls synchronously, so each is one step; updateJobMemory   *)
(* awaits between its load and its save, so another call can run between   *)
(* the two steps.  A call is marked overlapped when another call ran       *)
(* between its two steps.                                                  *)
(***************************************************************************)
\* the directory is empty, or holds one damaged file
InitialMemFiles ==
    {[p \in MemoryPaths |-> IF p = q THEN f ELSE NoFile] :
        q \in {getMemoryFilePath(<<"a", "_">>)}, f \in {NoFile, CorruptFile}}

MemInit ==
    /\ platform = "posix"
    /\ run = NoRun
    /\ pc = "idle"
    /\ job = NoJob
    /\ tp = NoTp
    /\ jobPromise = "none"
    /\ outcome = "none"
    /\ alerts = <<>>
    /\ logLines = <<>>
    /\ metaFile = NoMeta
    /\ runs = 0
    /\ spawns = 0
    /\ memFiles \in InitialMemFiles
    /\ calls = [c \in Callers |-> NoCall]
    /\ memOps = 0
    /\ memLast = NoLast
    /\ recText = <<>>
    /\ recResult = NoRecovered
    /\ SchedInit

nonMemVars == <<platform, run, pc, job, tp, jobPromise, outcome, alerts,
                logLines, metaFile, runs, spawns, recText, recResult,
                schedVars>>

\* the calls after caller c has taken a step that made its call newCall
StepOf(c, newCall) ==
    [d \in Callers |->
        IF d = c THEN newCall
        ELSE IF calls[d].pc = "loaded"
             THEN [calls[d] EXCEPT !.overlapped = TRUE]
             ELSE calls[d]]

\* caller c starts a call
Begins(c) ==
    /\ calls[c].pc = "idle"
    /\ memOps < MaxMemOps
    /\ memOps' = memOps + 1

OthersInFlight(c) == \E d \in Callers \ {c} : calls[d].pc = "loaded"

\* updateJobMemory up to its first await: the current memory is loaded
updateJobMemoryLoad(c, jobName, updates) ==
    /\ Begins(c)
    /\ calls' = StepOf(c, [pc |-> "loaded", op |-> "update",
                           jobName |-> jobName, updates |-> updates,
                           snapshot |-> loadJobMemory(memFiles, jobName),
                           result |-> "none",
                           overlapped |-> OthersInFlight(c)])
    /\ memLast' = [caller |-> c, op |-> "updateLoad", jobName |-> jobName,
                   result |-> "none"]
    /\ UNCHANGED <<memFiles, nonMemVars>>

\* updateJobMemory after the await: the merged map is saved
updateJobMemorySave(c, fsOk) ==
    /\ calls[c].pc = "loaded"
    /\ LET r == saveJobMemory(memFiles, calls[c].jobName,
                              mergeMemory(calls[c].snapshot,
                                          calls[c].updates), fsOk)
           res == IF r.threw THEN "threw" ELSE "ok"
       IN  /\ memFiles' = r.files
           /\ calls' = StepOf(c, [calls[c] EXCEPT !.pc = "idle",
                                                  !.result = res])
           /\ memLast' = [caller |-> c, op |-> "updateSave",
                          jobName |-> calls[c].jobName, result |-> res]
    /\ UNCHANGED <<memOps, nonMemVars>>

\* a direct call of saveJobMemory
CallSaveJobMemory(c, jobName, memory, fsOk) ==
    /\ Begins(c)
    /\ LET r == saveJobMemory(memFiles, jobName, memory, fsOk)
       IN  /\ memFiles' = r.files
           /\ memLast' = [caller |-> c, op |-> "save", jobName |-> jobName,
                          result |-> IF r.threw THEN "threw" ELSE "ok"]
    /\ calls' = StepOf(c, NoCall)
    /\ UNCHANGED nonMemVars

\* a load that lets the error of the read or of the parse escape
loadJobMemoryUncaught(files, jobName) ==
    LET f == files[getMemoryFilePath(jobName)]
    IN  [threw |-> f.exists /\ f.corrupt,
         memory |-> IF f.exists THEN f.memory ELSE EmptyMemory]
\* how the promise of loadJobMemory settles: the try block returns the
\* parsed file or {}, the catch block returns {}
loadJobMemorySettles(files, jobName) ==
    [threw |-> FALSE, memory |-> loadJobMemory(files, jobName)]

\* a direct call of loadJobMemory
CallLoadJobMemory(c, jobName) ==
    /\ Begins(c)
    /\ LET r == loadJobMemorySettles(memFiles, jobName)
       IN  /\ calls' = StepOf(c, [NoCall EXCEPT !.op = "load",
                                                !.snapshot = r.memory])
           /\ memLast' = [caller |-> c, op |-> "load", jobName |-> jobName,
                          result |-> IF r.threw THEN "threw" ELSE "ok"]
    /\ UNCHANGED <<memFiles, nonMemVars>>

\* a call of clearJobMemory
CallClearJobMemory(c, jobName, fsOk) ==
    /\ Begins(c)
    /\ memFiles' = clearJobMemory(memFiles, jobName, fsOk)
    /\ calls' = StepOf(c, NoCall)
    /\ memLast' = [caller |-> c, op |-> "clear", jobName |-> jobName,
                   result |-> IF memFiles[getMemoryFilePath(jobName)].exists
                                 /\ ~fsOk
                              THEN "failed" ELSE "ok"]
    /\ UNCHANGED nonMemVars

\* the command "memory clear <jobName>", run in a process of its own: it
\* unlinks <jobName>.json of the memory directory when that file exists
CliMemoryClear(jobName, fsOk) ==
    /\ memOps < MaxMemOps
    /\ memOps' = memOps + 1
    /\ LET p == cliMemoryFile(jobName)
       IN  /\ memFiles' = IF memFiles[p].exists /\ fsOk
                          THEN [memFiles EXCEPT ![p] = NoFile]
                          ELSE memFiles
           /\ memLast' = [caller |-> 0, op |-> "cliClear",
                          jobName |-> jobName,
                          result |-> IF memFiles[p].exists /\ ~fsOk
                                     THEN "failed" ELSE "ok"]
    /\ calls' = StepOf(0, NoCall)
    /\ UNCHANGED nonMemVars

MemNext ==
    \/ \E c \in Callers, n \in JobNames, u \in Updates :
           updateJobMemoryLoad(c, n, u)
    \/ \E c \in Callers, fsOk \in BOOLEAN : updateJobMemorySave(c, fsOk)
    \/ \E c \in Callers, n \in JobNames, m \in SaveMaps, fsOk \in BOOLEAN :
           CallSaveJobMemory(c, n, m, fsOk)
    \/ \E c \in Callers, n \in JobNames : CallLoadJobMemory(c, n)
    \/ \E c \in Callers, n \in JobNames, fsOk \in BOOLEAN :
           CallClearJobMemory(c, n, fsOk)
    \/ \E n \in JobNames, fsOk \in BOOLEAN : CliMemoryClear(n, fsOk)

MemorySpec == MemInit /\ [][MemNext]_vars

(***************************************************************************)
(* The Output Recovery Parser on its own: recover applied to any raw text. *)
(***************************************************************************)
RecInit ==
    /\ platform = "posix"
    /\ run = NoRun
    /\ pc = "idle"
    /\ job = NoJob
    /\ tp = NoTp
    /\ jobPromise = "none"
    /\ outcome = "none"
    /\ alerts = <<>>
    /\ logLines = <<>>
    /\ metaFile = NoMeta
    /\ runs = 0
    /\ spawns = 0
    /\ memFiles = [p \in MemoryPaths |-> NoFile]
    /\ calls = [c \in Callers |-> NoCall]
    /\ memOps = 0
    /\ memLast = NoLast
    /\ SchedInit
    /\ recText \in Texts
    /\ recResult = NoRecovered

Recover ==
    /\ recResult = NoRecovered
    /\ recResult' = recover(recText)
    /\ UNCHANGED <<schedVars, recText, memVars, platform, jobVars, run>>

RecoverSpec == RecInit /\ [][Recover]_vars

(***************************************************************************)
(* Properties of the Process Runner.                                       *)
(***************************************************************************)
Last(q) == q[Len(q)]
SignalSent(r, signal) == \E i \in 1..Len(r.signals) : r.signals[i].signal = signal
Settled(r) == r.result.state # "pending"

\* C1: the promise of executeGemini is resolved or rejected at most once,
\* whatever the order of the timeout, 'close' and 'error' events; once the
\* settled guard is true no later event settles again or changes the result.
SettlesAtMostOnce ==
    [][/\ run'.settleCalls <= 1
       /\ run.settled => /\ run'.settled
                         /\ run'.settleCalls = run.settleCalls
                         /\ run'.result = run.result]_vars

\* a 'close' that arrived after the timeout had settled the promise
CloseAfterTimeout ==
    /\ run.result.outcome = "TimedOut"
    /\ run.child = "closed"
    /\ run.settleCalls = 1

\* C2: every invocation settles in the end, also when the child never exits
\* and never emits an event; while the promise is pending the timeout timer
\* stays armed, so no handler disarms it without settling.
AlwaysSettles ==
    /\ [](run.child # "none" /\ ~Settled(run) => run.timeout = "armed")
    /\ (run.child # "none") ~> Settled(run)

\* the child was spawned, stayed silent and never exited: the timeout settled
SilentChildTimedOut ==
    /\ run.result.outcome = "TimedOut"
    /\ run.child = "running"
    /\ run.stdout = <<>> /\ run.stderr = <<>>
    /\ run.handled = <<"timeout">>

\* C3: after the timeout has sent SIGTERM, a child that has not exited is
\* sent SIGKILL when the grace period elapses: until the child has exited,
\* the force-kill timer is still pending or SIGKILL has been sent.
ForceKillAfterGrace ==
    ("timeout" \in {run.handled[i] : i \in 1..Len(run.handled)}
       /\ SignalSent(run, "SIGTERM") /\ run.child = "running")
    => (run.forceKillTimeout = "armed" \/ SignalSent(run, "SIGKILL"))

\* C4: once the invocation has settled no timer of it is armed and no
\* listener of the child is registered.
SettledReleasesAll ==
    Settled(run) => /\ run.timeout # "armed"
                    /\ run.forceKillTimeout # "armed"
                    /\ run.listeners = {}

\* settled by the timeout, whose callback had armed the force-kill timer
SettledByTimeout ==
    /\ run.result.outcome = "TimedOut"
    /\ run.handled = <<"timeout">>
    /\ SignalSent(run, "SIGTERM")

\* C5: when the timeout fires before any 'close' or 'error', the promise is
\* rejected as TimedOut in the step that sends SIGTERM.
TimeoutSettlesAtOnce ==
    [][(run.handled = <<>> /\ run'.handled = <<"timeout">>)
       => /\ run'.result.state = "rejected"
          /\ run'.result.outcome = "TimedOut"
          /\ run.pid => /\ Len(run'.signals) = Len(run.signals) + 1
                        /\ Last(run'.signals).signal = "SIGTERM"]_vars

\* timed out with the child still running and nothing else handled
TimedOutWhileRunning ==
    /\ run.handled = <<"timeout">>
    /\ run.child = "running"
    /\ run.pid
    /\ run.result.outcome = "TimedOut"
    /\ Len(run.signals) = 1

\* C6: whenever an invocation whose child was spawned has settled, a
\* termination signal has been sent to the child, on every path.
SettledMeansSignalled ==
    (Settled(run) /\ run.pid) => Len(run.signals) > 0

\* C7: when the spawn fails, the invocation settles as LaunchFailed in the
\* step that handles the 'error' event; that step disarms the timeout
\* timer, which never fires afterwards.
LaunchFailureSettlesAtOnce ==
    [][/\ (~run.pid /\ Len(run'.handled) = Len(run.handled) + 1
             /\ Last(run'.handled) = "error")
          => /\ run'.result.outcome = "LaunchFailed"
             /\ run'.result.state = "rejected"
             /\ run'.timeout # "armed"
       /\ run.result.outcome = "LaunchFailed"
          => /\ run'.timeout # "armed"
             /\ run'.handled = run.handled]_vars

\* the spawn failed and the error was handled before any timer fired
LaunchFailedNoTimeout ==
    /\ ~run.pid
    /\ run.child = "closed"
    /\ run.handled = <<"error">>
    /\ run.result.outcome = "LaunchFailed"

(***************************************************************************)
(* Properties of the Job Executor.                                         *)
(***************************************************************************)
Finished == pc = "idle" /\ runs > 0

\* C8 as stated: after a non-zero exit both the captured stdout and the
\* captured stderr reach the caller, and the run is reported as failed.
NonZeroExitKeepsBothStreams ==
    (Finished /\ tp.err.kind = "exit")
    => /\ outcome = "failed"
       /\ run.result.stdout = Trim(run.stdout)
       /\ run.result.stderr = Trim(run.stderr)

\* C8 as amended: after a non-zero exit the promise is rejected with an
\* error that carries the exit code and the captured stderr as it was
\* written; the captured stdout does not reach the caller; the run is
\* reported as failed and no success alert is sent.
NonZeroExitKeepsStderr ==
    (Finished /\ tp.err.kind = "exit")
    => /\ outcome = "failed"
       /\ run.result.state = "rejected"
       /\ tp.err.code = run.result.code /\ tp.err.code # 0
       /\ tp.err.text = run.stderr
       /\ run.result.stdout = Absent
       /\ \A i \in 1..Len(alerts) : alerts[i].kind = "error"

\* a non-zero exit after output on both streams, the stderr ending in blanks
NonZeroExitWithOutput ==
    /\ Finished /\ tp.err.kind = "exit"
    /\ run.stdout # <<>>
    /\ run.stderr # Trim(run.stderr)

\* C9: the promise of runTemplatedJob never rejects, whichever step fails.
JobNeverRejects == jobPromise # "rejected"

\* C10: one job execution spawns the subprocess at most once, also when the
\* spawn ends in LaunchFailed, TimedOut or a non-zero exit; a further spawn
\* needs a further invocation by the caller.
NoAutomaticRetry ==
    /\ [](spawns <= 1)
    /\ [][spawns' # spawns
          => \/ spawns = 0 /\ spawns' = 1 /\ runs' = runs
             \/ spawns' = 0 /\ runs' = runs + 1]_vars

\* a second execution ended after its one subprocess had failed
FailedRunNotRetried ==
    /\ Finished /\ runs = 2
    /\ tp.err.kind \in {"launch", "timeout", "exit"}
    /\ spawns = 1

LogHas(step) == \E i \in 1..Len(logLines) : logLines[i] = step

\* C11: a run whose subprocess ended in LaunchFailed or TimedOut is reported
\* as failed; the output was not parsed, the state step did not run, and
\* exactly one alert was handed to the sink: an error alert of priority P1
\* that names the job and carries the error of the runner.
RunnerFailureFailsJob ==
    (Finished /\ tp.err.kind \in {"launch", "timeout"})
    => /\ outcome = "failed"
       /\ ~LogHas("processOutput") /\ ~LogHas("state") /\ ~LogHas("notify")
       /\ tp.output = NoTp.output /\ tp.stdout = NoTp.stdout
       /\ tp.err = ErrorOf(run.result)
       /\ Len(alerts) = 1
       /\ alerts[1].kind = "error"
       /\ alerts[1].priority = "P1"
       /\ alerts[1].jobName = job.jobName
       /\ alerts[1].error = tp.err

\* a run that timed out, and one whose spawn failed, each with its one alert
\* delivered
RunnerFailureAlerted ==
    /\ Finished /\ tp.err.kind \in {"launch", "timeout"}
    /\ run.result.outcome \in {"LaunchFailed", "TimedOut"}
    /\ Len(alerts) = 1 /\ alerts[1].delivered

\* C12: when the subprocess exits with code 0 and its trimmed stdout is
\* empty, the run is reported as failed and no success alert is sent.
EmptyOutputIsFailure ==
    (Finished /\ run.result.state = "fulfilled" /\ run.result.stdout = <<>>)
    => /\ outcome = "failed"
       /\ \A i \in 1..Len(alerts) : alerts[i].kind # "success"

\* C14: when the state step throws after the subprocess has completed
\* successfully, the success alert is still sent and the run is still
\* reported as successful.
PersistenceFailureKeepsSuccess ==
    (Finished /\ run.result.state = "fulfilled"
       /\ tp.err.kind \in {"fs", "metaParse"})
    => /\ outcome = "success"
       /\ \E i \in 1..Len(alerts) : alerts[i].kind = "success"

(***************************************************************************)
(* Properties of JobMemory.                                                *)
(***************************************************************************)
\* the updateCount a file holds for its readers
PersistedCount(f) ==
    IF f.exists /\ ~f.corrupt THEN f.memory.meta.updateCount ELSE 0

\* caller c completes updateJobMemory in this step
UpdateCompletes(c) ==
    /\ calls[c].pc = "loaded"
    /\ calls'[c].pc = "idle"
    /\ calls'[c].result = "ok"

\* C13: after a run that was reported as failed, a memory of the job is
\* persisted (the failure-flagged delta of the run).
FailedRunPersistsFailure ==
    (Finished /\ outcome = "failed")
    => \E p \in MemoryPaths : PersistedCount(memFiles[p]) >= 1

\* C15: when an updateJobMemory(job, U) that no other call overlapped
\* completes, the persisted memory holds every key of U with U's value,
\* every other key that was persisted before with its previous value, and
\* a _metadata entry.
MemoryUpdateMerges ==
    [][\A c \in Callers :
         (UpdateCompletes(c) /\ ~calls[c].overlapped)
         => LET n == calls[c].jobName
                U == calls[c].updates
                before == loadJobMemory(memFiles, n)
                after == memFiles'[getMemoryFilePath(n)]
            IN  /\ after.exists /\ ~after.corrupt
                /\ \A k \in Keys :
                      after.memory.kv[k] = IF U.kv[k] # 0 THEN U.kv[k]
                                           ELSE before.kv[k]
                /\ after.memory.meta.updateCount >= 1]_vars

\* an update added its key to a memory that held another key, which stayed
MemoryMerged ==
    \E c \in Callers :
        /\ memLast = [caller |-> c, op |-> "updateSave",
                      jobName |-> calls[c].jobName, result |-> "ok"]
        /\ ~calls[c].overlapped
        /\ \E k \in Keys : /\ calls[c].snapshot.kv[k] # 0
                            /\ calls[c].updates.kv[k] = 0
        /\ LET f == memFiles[getMemoryFilePath(calls[c].jobName)]
           IN  \A k \in Keys : f.memory.kv[k] # 0

\* C16: every successful save of a job (saveJobMemory, or an updateJobMemory
\* that no other call overlapped) persists an updateCount one greater than
\* the count persisted before it, 1 on first creation.
UpdateCountIncrements ==
    [][\A n \in JobNames :
         (/\ memLast'.jobName = n
          /\ memLast'.result = "ok"
          /\ \/ memLast'.op = "save" /\ memOps' # memOps
             \/ /\ memLast'.op = "updateSave"
                /\ UpdateCompletes(memLast'.caller)
                /\ ~calls[memLast'.caller].overlapped)
         => PersistedCount(memFiles'[getMemoryFilePath(n)])
              = PersistedCount(memFiles[getMemoryFilePath(n)]) + 1]_vars

\* C17: the save of updateJobMemory writes the snapshot it loaded merged
\* with its own update, whatever the file holds by then: a key that another
\* call persisted after the load is gone, the updateCount is one more than
\* the snapshot's, and the call reports success.
SaveWritesFromSnapshot ==
    [][\A c \in Callers :
         UpdateCompletes(c)
         => LET s == calls[c].snapshot
                U == calls[c].updates
                after == memFiles'[getMemoryFilePath(calls[c].jobName)]
            IN  /\ \A k \in Keys :
                      after.memory.kv[k] = IF U.kv[k] # 0 THEN U.kv[k]
                                           ELSE s.kv[k]
                /\ after.memory.meta.updateCount = s.meta.updateCount + 1]_vars

\* two overlapping updates of one job read the same snapshot and both
\* completed: the key of one of them is lost and the count advanced by one
LostUpdate ==
    /\ \A c \in Callers : /\ calls[c].pc = "idle" /\ calls[c].op = "update"
                          /\ calls[c].result = "ok" /\ calls[c].overlapped
    /\ calls[1].jobName = calls[2].jobName
    /\ calls[1].snapshot = calls[2].snapshot
    /\ LET f == memFiles[getMemoryFilePath(calls[1].jobName)]
       IN  /\ \E c \in Callers, k \in Keys :
                 calls[c].updates.kv[k] # 0 /\ f.memory.kv[k] = 0
           /\ f.memory.meta.updateCount
                = calls[1].snapshot.meta.updateCount + 1

\* C18: a call for one job name leaves the memory files of every other job
\* name as they were.
OtherJobsUntouched ==
    [][\A n \in JobNames :
         memLast'.jobName = n
         => \A m \in JobNames \ {n} :
               memFiles'[getMemoryFilePath(m)]
                 = memFiles[getMemoryFilePath(m)]]_vars

(***************************************************************************)
(* Properties of the Output Recovery Parser.                               *)
(***************************************************************************)
\* C19: for every raw text, the empty one included, recover returns a
\* response without raising, and the response carries one of the four
\* recoveryMode tags.
RecoverIsTotal ==
    recResult # NoRecovered
    => /\ ~recResult.threw
       /\ recResult.recoveryMode \in RecoveryModes

\* the empty text was recovered by the plain-text fallback
EmptyTextRecovered ==
    /\ recText = <<>>
    /\ recResult.recoveryMode = "PlainTextFallback"
    /\ ~recResult.threw

\* C20: the response is tagged with a strategy only if every strategy
\* before it failed on the text; a whole text that parses into an object
\* is tagged WholeTextJson also when the object has no jobResult; the
\* embedded and the line strategy return a non-empty string jobResult.
FirstStrategyWins ==
    recResult # NoRecovered
    => LET m == recResult.recoveryMode
           whole == JsonParse(TrimText(recText)).ok
           embedded == embeddedScan(recText).ok
           line == lineScan(recText).ok
       IN  /\ whole <=> m = "WholeTextJson"
           /\ m = "EmbeddedJson" <=> (~whole /\ embedded)
           /\ m = "LineJson" <=> (~whole /\ ~embedded /\ line)
           /\ m = "PlainTextFallback" <=> (~whole /\ ~embedded /\ ~line)
           /\ m \in {"EmbeddedJson", "LineJson"}
              => /\ recResult.jobResult.type = "string"
                 /\ recResult.jobResult.v # <<>>

\* a whole text that is an object without a jobResult key was accepted
ObjectWithoutJobResultAccepted ==
    /\ SelectSeq(recText, IsNotBreak) = <<"{", "}">>
    /\ recResult.recoveryMode = "WholeTextJson"
    /\ recResult.jobResult = Undefined

\* C21 as stated: every response of recover carries a jobResult that is a
\* string, in every recoveryMode.
JobResultAlwaysString ==
    recResult # NoRecovered => recResult.jobResult.type = "string"

\* C21 as amended: a response tagged EmbeddedJson or LineJson carries a
\* non-empty string jobResult and one tagged PlainTextFallback carries the
\* raw text; one tagged WholeTextJson carries the jobResult of the parsed
\* object, which is absent exactly when the object has no such key.
JobResultStringUnlessWholeText ==
    recResult # NoRecovered
    => LET m == recResult.recoveryMode
       IN  /\ m \in {"EmbeddedJson", "LineJson"}
              => /\ recResult.jobResult.type = "string"
                 /\ recResult.jobResult.v # <<>>
           /\ m = "PlainTextFallback"
              => recResult.jobResult.type = "string"
           /\ m = "WholeTextJson"
              => (recResult.jobResult.type # "string"
                    <=> SelectSeq(recText, IsNotBreak) = <<"{", "}">>)

\* an object without a jobResult lies among prose: it was not accepted by
\* the scans, and the response carries the raw text
EmbeddedObjectWithoutJobResult ==
    /\ recText = <<"x", "{", "}">>
    /\ recResult.recoveryMode = "PlainTextFallback"
    /\ recResult.jobResult = Str(recText)

\* the raw text holds no JSON object: no span of it parses into an object
\* (the "D" token holds an object of its own)
NoJsonAnywhere(text) ==
    /\ \A i \in 1..Len(text) : text[i] # "D"
    /\ \A i \in 1..Len(text), j \in 1..Len(text) :
          ~JsonParse(SubSeq(text, i, j)).ok

ContextLoadFailsFast ==
    pc = "prompt"
    => tp.vars["context"]
         = Str(getContextFilesForType(Templates[tp.template].contextType))

(***************************************************************************)
(* Further properties of JobMemory.                                        *)
(***************************************************************************)
\* C24: after clearJobMemory, and after the command "memory clear", has
\* run without an error for a job, loadJobMemory of that job returns the
\* empty map.
ClearEmptiesMemory ==
    [][(memOps' # memOps /\ memLast'.op \in {"clear", "cliClear"}
          /\ memLast'.result = "ok")
       => loadJobMemory(memFiles', memLast'.jobName) = EmptyMemory]_vars

\* C27: loadJobMemory never raises and leaves every memory file as it was;
\* it returns the empty map when the file of the job is missing and when
\* the file cannot be read or parsed.
LoadNeverRaises ==
    [][(memOps' # memOps /\ memLast'.op = "load")
       => LET f == memFiles[getMemoryFilePath(memLast'.jobName)]
          IN  /\ memLast'.result = "ok"
              /\ memFiles' = memFiles
              /\ (~f.exists \/ f.corrupt)
                 => calls'[memLast'.caller].snapshot = EmptyMemory]_vars

\* a damaged memory file was loaded as the empty map
DamagedFileLoadedAsEmpty ==
    /\ memLast.op = "load" /\ memLast.result = "ok"
    /\ memFiles[getMemoryFilePath(memLast.jobName)] = CorruptFile
    /\ calls[memLast.caller].snapshot = EmptyMemory

\* the state key of the execution in flight
OwnStateKey ==
    process(Templates[tp.template].stateKeyTemplate,
            processVariables(tp.vars))

\* C29: the meta file is written only by the state step of a template
\* whose state management is enabled, and that step leaves every entry of
\* another state key as it was.
StateTouchesOwnKeyOnly ==
    [][/\ metaFile' # metaFile
          => pc = "state" /\ Templates[tp.template].stateEnabled
       /\ (pc = "state" /\ metaFile.exists /\ ~metaFile.corrupt)
          => \A i \in 1..Len(metaFile.entries) :
                metaFile.entries[i].key # OwnStateKey
                => \E j \in 1..Len(metaFile'.entries) :
                      metaFile'.entries[j] = metaFile.entries[i]]_vars

\* the state step added the entry of its own key next to another entry
OwnEntryAddedNextToOther ==
    /\ LogHas("state") /\ tp.err = NoErr
    /\ Len(metaFile.entries) = 2
    /\ \E i \in 1..2 : metaFile.entries[i].key = OwnStateKey
    /\ \E i \in 1..2 : metaFile.entries[i].key = OtherKey

\* C26: when 'close' is handled before the promise has settled, that step
\* sends one more SIGTERM, to the process group or on Windows to the
\* child, while the promise is still pending, and then settles as
\* Completed with the result that the exit code and the collected output
\* decide, whether or not the signal was delivered; the listener runs to
\* its end.
CloseSignalsThenSettles ==
    [][(~run.settled /\ run.pid /\ Len(run'.handled) = Len(run.handled) + 1
          /\ Last(run'.handled) = "close")
       => /\ Len(run'.signals) = Len(run.signals) + 1
          /\ Last(run'.signals).signal = "SIGTERM"
          /\ Last(run'.signals).target
               = (IF platform = "win32" THEN "child" ELSE "group")
          /\ Last(run'.signals).promise = "pending"
          /\ run'.result.outcome = "Completed"
          /\ run'.result = CloseResult(run, run'.result.code)
          /\ run'.settleCalls = 1
          /\ run'.listeners = {}]_vars

\* the child closed first, the SIGTERM of the listener was not delivered
\* and the promise was settled by the exit code
ClosedWithUndeliveredSignal ==
    /\ run.handled = <<"close">>
    /\ run.result.outcome = "Completed"
    /\ Len(run.signals) = 1
    /\ ~run.signals[1].delivered

\* the step logged before the i-th step of the execution
Before(i) == IF i = 1 THEN "none" ELSE logLines[i - 1]

\* C25: the steps of one execution run one after the other: the subprocess
\* is spawned right after the prompt was built, the output is processed
\* right after the subprocess settled as fulfilled, the state step follows
\* the output step and the success notification follows the state step;
\* each step works on the result of the one before.
StepsAreSequential ==
    /\ \A i \in 1..Len(logLines) :
          /\ logLines[i] = "spawn" => Before(i) = "prompt"
          /\ logLines[i] = "settled" => Before(i) = "spawn" /\ Settled(run)
          /\ logLines[i] = "processOutput"
                => /\ Before(i) = "settled"
                   /\ run.result.state = "fulfilled"
                   /\ tp.stdout = run.result.stdout
          /\ logLines[i] = "state" => Before(i) = "processOutput"
          /\ logLines[i] = "notify" => Before(i) = "state"
    /\ pc = "awaitGemini" => run # NoRun

\* an execution that went through every step and was reported as a success
AllStepsTaken ==
    /\ Finished /\ outcome = "success"
    /\ logLines = <<"start", "getTemplate", "validate", "prepare",
                    "loadContext", "prompt", "spawn", "settled",
                    "processOutput", "state", "notify">>

\* the declared type of a parameter and the type of the value given
WrongType(value, paramDef) == value.type # paramDef.type

\* the value violates a validation rule of the parameter
ViolatesRule(value, paramDef) ==
    LET val == paramDef.validation
    IN  \/ val.hasAllowed /\ value \notin val.allowedValues
        \/ /\ value.type = "string" /\ val.minLength # 0
           /\ Len(value.v) < val.minLength
        \/ /\ value.type = "string" /\ val.maxLength # 0
           /\ Len(value.v) > val.maxLength

\* the job configuration names an unknown template, lacks a required
\* parameter, or gives a parameter a value of the wrong type or against
\* its validation rule
InvalidConfig(cfg) ==
    \/ cfg.templateId \notin DOMAIN Templates
    \/ /\ cfg.templateId \in DOMAIN Templates
       /\ \E n \in DOMAIN Templates[cfg.templateId].parameters :
             LET paramDef == Templates[cfg.templateId].parameters[n]
                 given == cfg.parameters[n]
                 value == IF given = Undefined THEN paramDef.defaultValue
                          ELSE given
             IN  \/ given = Undefined /\ paramDef.required
                 \/ /\ value # Undefined
                    /\ \/ WrongType(value, paramDef)
                       \/ ViolatesRule(value, paramDef)

\* the execution spawned nothing, wrote no state and was reported as failed
FailedBeforeSpawn ==
    /\ spawns = 0 /\ run = NoRun
    /\ ~LogHas("spawn") /\ ~LogHas("state")
    /\ Finished => /\ outcome = "failed"
                   /\ Len(alerts) = 1 /\ alerts[1].kind = "error"

\* C30: an execution whose template id is unknown, or that lacks a
\* required parameter, or has a parameter of the wrong type or against its
\* validation rule, spawns no subprocess, writes no state and ends with an
\* error alert.
InvalidJobFailsBeforeSpawn ==
    (runs > 0 /\ InvalidConfig(job)) => FailedBeforeSpawn

\* C28: under the scheduler, while an execution of a scheduled job is in
\* flight the logger writes detailed (non-CLI) lines, whatever the
\* interleaving of the overlapping callbacks.
DetailedWhileInFlight ==
    (\E j \in ScheduledJobs : inFlight[j] > 0) => logWithLevel = "detailed"
====
